---- MODULE Spec2Model ----
(***************************************************************************)
(* A model of download_images_parallel.py: the URL normalizer, the task    *)
(* planner, the fetch-convert worker, the worker pool and the schedule     *)
(* rewriter, driven by main over the schedule files of the configured      *)
(* folders.                                                                *)
(*                                                                         *)
(* A URL is kept in parsed form, a record                                  *)
(*   [host, dir, stem, ext, query]                                         *)
(* whose text is UrlStr(u) = host dir stem ext ?k=v&k=v.  A query value is *)
(* the sequence of its parts between the letters "x": "100x50" is          *)
(* <<"100", "50">>, "1" is <<"1">>.  The names of the model hold no space  *)
(* and no percent escape, so unquote and replace(" ", "_") leave them as   *)
(* they are.                                                               *)
(***************************************************************************)
EXTENDS Integers, Sequences, FiniteSets, TLC

(***************************************************************************)
(* Bounds of the model.                                                    *)
(***************************************************************************)
\* Schedule items over all the files of one batch.
MaxItems == 3
\* Schedule items over all the files of a batch that is run more than once.
MaxRerunItems == 2
\* Runs of main over the same folders.
MaxRuns == 2
\* Schedule items over the files of a batch whose tomorrow file is Today.json.
MaxDayItems == 2
\* Lines of the scraper's filter list.
MaxChannels == 2
\* Programme elements over the two EPG feeds.
MaxProgs == 2
\* Query parameters of a URL given to the normalizer alone.
MaxParams == 3
\* The size of the worker pool: MAX_WORKERS (30 in the source, line 42),
\* scaled so that one file's task list can be longer than the pool.
MAX_WORKERS == 2

(***************************************************************************)
(* Configuration (lines 31-45).                                            *)
(***************************************************************************)
TARGET_WIDTH == 250

WP_PREFIX == "https://intvschedule.com/wp-content/uploads/downloaded-images"

\* FOLDERS: the last path component of each configured folder, in order.
\* The part before it, /Users/rishipandey/Projects/dishtv-scrapper/, holds
\* no "today" and is left out of the day test's text.
FOLDERS == <<"today", "tomorrow">>

(***************************************************************************)
(* Text helpers.                                                           *)
(***************************************************************************)
RECURSIVE JoinStr(_, _)
\* sep.join(parts)
JoinStr(parts, sep) ==
    IF parts = <<>> THEN ""
    ELSE IF Len(parts) = 1 THEN parts[1]
    ELSE parts[1] \o sep \o JoinStr(Tail(parts), sep)

\* str.lower() on one character.
LowerChar(c) ==
    CASE c = "A" -> "a" [] c = "D" -> "d" [] c = "E" -> "e" [] c = "O" -> "o"
      [] c = "S" -> "s" [] c = "T" -> "t" [] c = "V" -> "v" [] c = "Y" -> "y"
      [] c = "Z" -> "z"
      [] OTHER -> c

LowerSeq(cs) == [i \in 1..Len(cs) |-> LowerChar(cs[i])]

\* sub in cs, both sequences of characters.
ContainsSeq(cs, sub) ==
    \E i \in 1..(Len(cs) - Len(sub) + 1) :
        \A j \in 1..Len(sub) : cs[i + j - 1] = sub[j]

\* int(s) succeeds.
IsIntStr(s) == s \in {"0", "1", "50", "100", "125", "200", "250"}

\* int(s), for s with IsIntStr(s).
IntOfStr(s) ==
    CASE s = "0" -> 0 [] s = "1" -> 1 [] s = "50" -> 50 [] s = "100" -> 100
      [] s = "125" -> 125 [] s = "200" -> 200 [] s = "250" -> 250

\* round(num / den), den > 0: to the nearest integer, a half to the even one.
RoundHalfEven(num, den) ==
    LET q == num \div den
        r == num - q * den
    IN  IF 2 * r < den THEN q
        ELSE IF 2 * r > den THEN q + 1
        ELSE IF q % 2 = 0 THEN q ELSE q + 1

Max(a, b) == IF a >= b THEN a ELSE b

(***************************************************************************)
(* URLs.                                                                   *)
(***************************************************************************)
\* One query value as text: its parts joined by "x".
ValueStr(v) == JoinStr(v, "x")

RECURSIVE QueryStr(_)
\* The query as text, k=v joined by "&".
QueryStr(q) ==
    IF q = <<>> THEN ""
    ELSE q[1].k \o "=" \o ValueStr(q[1].v)
         \o (IF Len(q) = 1 THEN "" ELSE "&" \o QueryStr(Tail(q)))

\* The text of a URL.
UrlStr(u) ==
    u.host \o u.dir \o u.stem \o u.ext
    \o (IF u.query = <<>> THEN "" ELSE "?" \o QueryStr(u.query))

\* The keys of a query in the order of their first occurrence.
RECURSIVE QueryKeys(_)
QueryKeys(q) ==
    IF q = <<>> THEN <<>>
    ELSE LET rest == QueryKeys(Tail(q))
         IN  <<q[1].k>> \o SelectSeq(rest, LAMBDA k : k # q[1].k)

\* The values of key k in a query, in order.
RECURSIVE ValuesOf(_, _)
ValuesOf(q, k) ==
    IF q = <<>> THEN <<>>
    ELSE (IF q[1].k = k THEN <<q[1].v>> ELSE <<>>) \o ValuesOf(Tail(q), k)

\* parse_qs(query, keep_blank_values=True): each key once, in the order of
\* its first occurrence, with the list of its values.
parse_qs(q) ==
    LET keys == QueryKeys(q)
    IN  [i \in 1..Len(keys) |-> [k |-> keys[i], vals |-> ValuesOf(q, keys[i])]]

RECURSIVE urlencode(_)
\* urlencode(qs, doseq=True): every value of every key, in the dict's order.
urlencode(qs) ==
    IF qs = <<>> THEN <<>>
    ELSE [i \in 1..Len(qs[1].vals) |-> [k |-> qs[1].k, v |-> qs[1].vals[i]]]
         \o urlencode(Tail(qs))

\* "lock" in qs
HasKey(qs, key) == \E i \in 1..Len(qs) : qs[i].k = key

\* qs[key]
Lookup(qs, key) == qs[CHOOSE i \in 1..Len(qs) : qs[i].k = key].vals

\* qs[key] = [value]
SetKey(qs, key, value) ==
    [i \in 1..Len(qs) |-> IF qs[i].k = key
                          THEN [k |-> key, vals |-> <<value>>]
                          ELSE qs[i]]

\* The rewriting without the floor of 1 under the new height.
AdjustedLockNoMin(lock, target_width) ==
    IF IsIntStr(lock[1]) /\ IsIntStr(lock[2]) /\ IntOfStr(lock[1]) # 0
    THEN LET w == IntOfStr(lock[1])
             h == IntOfStr(lock[2])
             new_h == RoundHalfEven(h * target_width, w)
         IN  <<ToString(target_width), ToString(new_h)>>
    ELSE <<ToString(target_width), ToString(target_width)>>

\* Lines 88-96: the rewritten lock value, for a lock with the separator "x"
\* and exactly two parts.
AdjustedLock(lock, target_width) ==
    IF IsIntStr(lock[1]) /\ IsIntStr(lock[2]) /\ IntOfStr(lock[1]) # 0
    THEN LET w == IntOfStr(lock[1])
             h == IntOfStr(lock[2])
             new_h == Max(1, RoundHalfEven(h * target_width, w))
         IN  <<ToString(target_width), ToString(new_h)>>
    \* int() failed or the division by zero was raised: the bare except
    ELSE <<ToString(target_width), ToString(target_width)>>

\* The normalizer building the query anew for a URL without a lock too.
parse_and_adjust_size_reencode(url, target_width) ==
    LET qs == parse_qs(url.query)
    IN  IF ~HasKey(qs, "lock") THEN [url EXCEPT !.query = urlencode(qs)]
        ELSE LET lock == Lookup(qs, "lock")[1]
             IN  IF Len(lock) > 2
                 THEN url
                 ELSE IF Len(lock) = 2
                 THEN [url EXCEPT !.query =
                          urlencode(SetKey(qs, "lock",
                                           AdjustedLock(lock, target_width)))]
                 ELSE [url EXCEPT !.query = urlencode(qs)]

\* parse_and_adjust_size(url, target_width), lines 75-112.
parse_and_adjust_size(url, target_width) ==
    LET qs == parse_qs(url.query)
    IN  IF ~HasKey(qs, "lock") THEN url
        ELSE LET lock == Lookup(qs, "lock")[1]
             IN  IF Len(lock) > 2
                 \* w, h = lock.split("x") raises; the outer except returns url
                 THEN url
                 ELSE IF Len(lock) = 2
                 THEN [url EXCEPT !.query =
                          urlencode(SetKey(qs, "lock",
                                           AdjustedLock(lock, target_width)))]
                 ELSE [url EXCEPT !.query = urlencode(qs)]

(***************************************************************************)
(* File names (lines 115-126).                                             *)
(***************************************************************************)
\* hashlib.md5(s.encode("utf-8")).hexdigest() as <<its first 10 characters,
\* the other 22>>, for the URL texts of the model: the values md5 gives.
Md5Hex(s) ==
    CASE s = "https://cdn.example.com/logos/show.png?lock=250x125&v=1"
           -> <<"45450f89d9", "dbca422e96538fdd63a957">>
      [] s = "https://cdn.example.com/logos/show.png?v=1&lock=250x125"
           -> <<"09a15acf19", "79fbb5a6cb64eb3d71d292">>
      [] s = "https://cdn.example.com/logos/show.png?v=550054"
           -> <<"d12fd6b648", "50dad35c327319c12cafde">>
      [] s = "https://cdn.example.com/logos/show.png?v=1411962"
           -> <<"d12fd6b648", "396f6b9610bea7d6916756">>
      [] s = "https://intvschedule.com/wp-content/uploads/downloaded-images/zee-tv/today/show_45450f89d9.webp"
           -> <<"dcd7d3aa22", "9cb9de904d128964f480f9">>
      [] s = "https://intvschedule.com/wp-content/uploads/downloaded-images/zee-tv/tomorrow/show_45450f89d9.webp"
           -> <<"979e3b004f", "311ef9f163dcb78ff42424">>
      [] s = "https://intvschedule.com/wp-content/uploads/downloaded-images/today/today/show_45450f89d9.webp"
           -> <<"d4fad531b9", "e6461c61acf5ae47f5dcd1">>
      [] s = "https://intvschedule.com/wp-content/uploads/downloaded-images/zee-tv/today/show_09a15acf19.webp"
           -> <<"6b058d1e44", "4b593c6f27483c6f0b3ba4">>
      [] s = "https://intvschedule.com/wp-content/uploads/downloaded-images/zee-tv/tomorrow/show_09a15acf19.webp"
           -> <<"bbc36de08f", "b7ba936b8c366d8d3d0fec">>
      [] s = "https://intvschedule.com/wp-content/uploads/downloaded-images/today/today/show_09a15acf19.webp"
           -> <<"9b2648513b", "7a4bb3f7cae30692db62a6">>
      [] s = "https://intvschedule.com/wp-content/uploads/downloaded-images/zee-tv/today/show_d12fd6b648.webp"
           -> <<"f65f9cc9d6", "86ef7d448ea8500e946430">>
      [] s = "https://intvschedule.com/wp-content/uploads/downloaded-images/zee-tv/tomorrow/show_d12fd6b648.webp"
           -> <<"f422edfe78", "97ac6ec957c2e5e3080d39">>
      [] s = "https://intvschedule.com/wp-content/uploads/downloaded-images/today/today/show_d12fd6b648.webp"
           -> <<"342bd0f3e7", "f6d02628b72447f1b61367">>
      [] s = "https://intvschedule.com/wp-content/uploads/downloaded-images/zee-tv/today/show_45450f89d9_dcd7d3aa22.webp"
           -> <<"e268cba6ba", "6a82a0a6b8ace5605c8388">>
      [] s = "https://intvschedule.com/wp-content/uploads/downloaded-images/zee-tv/tomorrow/show_45450f89d9_979e3b004f.webp"
           -> <<"e085d64106", "3aee6e41058cceceda3216">>
      [] s = "https://intvschedule.com/wp-content/uploads/downloaded-images/today/today/show_45450f89d9_d4fad531b9.webp"
           -> <<"e3a21c5a21", "6abd6a8e85c16018e3eb5a">>
      [] s = "https://intvschedule.com/wp-content/uploads/downloaded-images/zee-tv/today/show_09a15acf19_6b058d1e44.webp"
           -> <<"96491bcf5c", "e11e4f93667a981c3f6d96">>
      [] s = "https://intvschedule.com/wp-content/uploads/downloaded-images/zee-tv/tomorrow/show_09a15acf19_bbc36de08f.webp"
           -> <<"6b2a14bb35", "b3e535e6f17c05148f17e4">>
      [] s = "https://intvschedule.com/wp-content/uploads/downloaded-images/today/today/show_09a15acf19_9b2648513b.webp"
           -> <<"29d6c57380", "55e8c132fc87286df86bf7">>
      [] s = "https://intvschedule.com/wp-content/uploads/downloaded-images/zee-tv/today/show_d12fd6b648_f65f9cc9d6.webp"
           -> <<"05136acc40", "bac8b1cd1ca2cf64a1f1b2">>
      [] s = "https://intvschedule.com/wp-content/uploads/downloaded-images/zee-tv/tomorrow/show_d12fd6b648_f422edfe78.webp"
           -> <<"9bfeec0065", "e916efddf197e4f7b9631e">>
      [] s = "https://intvschedule.com/wp-content/uploads/downloaded-images/today/today/show_d12fd6b648_342bd0f3e7.webp"
           -> <<"27ca9d5df8", "ca08b75e49077b92f06964">>
      [] s = "https://intvschedule.com/wp-content/uploads/downloaded-images/zee-tv/today/show_45450f89d9_dcd7d3aa22_e268cba6ba.webp"
           -> <<"3cb604e549", "bc4e8838578ec4d13ed01c">>
      [] s = "https://intvschedule.com/wp-content/uploads/downloaded-images/zee-tv/tomorrow/show_45450f89d9_979e3b004f_e085d64106.webp"
           -> <<"6500a15474", "43a74f1c0148a006f5feee">>
      [] s = "https://intvschedule.com/wp-content/uploads/downloaded-images/today/today/show_45450f89d9_d4fad531b9_e3a21c5a21.webp"
           -> <<"bd7e7f76b5", "0bac9287b1ae9ff89f3c5a">>
      [] s = "https://intvschedule.com/wp-content/uploads/downloaded-images/zee-tv/today/show_09a15acf19_6b058d1e44_96491bcf5c.webp"
           -> <<"ff6b0bc090", "82c0214107b6738d11a95a">>
      [] s = "https://intvschedule.com/wp-content/uploads/downloaded-images/zee-tv/tomorrow/show_09a15acf19_bbc36de08f_6b2a14bb35.webp"
           -> <<"87571f2d62", "999b142a1b505648e8695e">>
      [] s = "https://intvschedule.com/wp-content/uploads/downloaded-images/today/today/show_09a15acf19_9b2648513b_29d6c57380.webp"
           -> <<"09a7f60743", "a0d03827f25eccd2afee38">>
      [] s = "https://intvschedule.com/wp-content/uploads/downloaded-images/zee-tv/today/show_d12fd6b648_f65f9cc9d6_05136acc40.webp"
           -> <<"d673f88a7e", "60150b8e64cad64637611b">>
      [] s = "https://intvschedule.com/wp-content/uploads/downloaded-images/zee-tv/tomorrow/show_d12fd6b648_f422edfe78_9bfeec0065.webp"
           -> <<"b8f7e87a80", "4253108d930d728c4f37fa">>
      [] s = "https://intvschedule.com/wp-content/uploads/downloaded-images/today/today/show_d12fd6b648_342bd0f3e7_27ca9d5df8.webp"
           -> <<"4a659edf45", "dec08b71de6c557eb10daf">>

\* url_basename(url), lines 115-120, as <<root, extension>> of the name.
url_basename(url) ==
    IF url.stem \o url.ext = ""
    THEN [stem |-> Md5Hex(UrlStr(url))[1] \o Md5Hex(UrlStr(url))[2],
          ext |-> ".img"]
    ELSE [stem |-> url.stem, ext |-> url.ext]

\* unique_filename_for(url, basename), lines 123-126, as <<root, extension>>.
unique_filename_for(url, basename) ==
    [stem |-> basename.stem \o "_" \o Md5Hex(UrlStr(url))[1], ext |-> ".webp"]

(***************************************************************************)
(* Schedule files.                                                         *)
(***************************************************************************)
\* The JSON files the folders may hold: the folder and the characters of
\* the file's stem.
JsonPaths ==
    <<[folder |-> "today",    stem |-> <<"Z", "e", "e", " ", "T", "V">>],
      [folder |-> "tomorrow", stem |-> <<"Z", "e", "e", " ", "T", "V">>],
      [folder |-> "tomorrow", stem |-> <<"T", "o", "d", "a", "y">>]>>

\* The characters of a folder's last path component.
FolderChars(folder) ==
    IF folder = "today" THEN <<"t", "o", "d", "a", "y">>
    ELSE <<"t", "o", "m", "o", "r", "r", "o", "w">>

\* slug_from_filename(json_path), lines 71-72.
slug_from_filename(json_path) ==
    JoinStr([i \in 1..Len(json_path.stem) |->
                IF LowerChar(json_path.stem[i]) = " " THEN "-"
                ELSE LowerChar(json_path.stem[i])], "")

\* Line 195: "today" if "today" in str(json_path).lower() else "tomorrow".
DayOf(json_path) ==
    IF ContainsSeq(LowerSeq(FolderChars(json_path.folder) \o <<"/">>
                            \o json_path.stem
                            \o <<".", "j", "s", "o", "n">>),
                   <<"t", "o", "d", "a", "y">>)
    THEN "today" ELSE "tomorrow"

\* local_dir = OUTPUT_BASE / slug / day (line 222), below OUTPUT_BASE.
LocalDir(json_path) == slug_from_filename(json_path) \o "/" \o DayOf(json_path)

\* local_path = local_dir / filename (line 224).
LocalPath(json_path, norm_url) ==
    LET filename == unique_filename_for(norm_url, url_basename(norm_url))
    IN  [dir |-> LocalDir(json_path), stem |-> filename.stem, ext |-> filename.ext]

\* str(path)
PathStr(p) == p.dir \o "/" \o p.stem \o p.ext

\* save_path.with_suffix(".part") (line 138)
TmpPath(p) == [p EXCEPT !.ext = ".part"]

\* Lines 257-258: the public URL of a local artifact.
PublicUrl(json_path, local) ==
    [host |-> WP_PREFIX,
     dir |-> "/" \o slug_from_filename(json_path) \o "/" \o DayOf(json_path) \o "/",
     stem |-> local.stem, ext |-> local.ext, query |-> <<>>]

(***************************************************************************)
(* The inputs of the model.                                                *)
(***************************************************************************)
Logo(q) ==
    [host |-> "https://cdn.example.com", dir |-> "/logos/", stem |-> "show",
     ext |-> ".png", query |-> q]

\* An item with no show_logo, or an empty one.
EmptyLogo == [host |-> "", dir |-> "", stem |-> "", ext |-> "", query |-> <<>>]

LogoWH  == Logo(<<[k |-> "lock", v |-> <<"100", "50">>], [k |-> "v", v |-> <<"1">>]>>)
LogoHW  == Logo(<<[k |-> "v", v |-> <<"1">>], [k |-> "lock", v |-> <<"100", "50">>]>>)
LogoBig == Logo(<<[k |-> "lock", v |-> <<"200", "100">>], [k |-> "v", v |-> <<"1">>]>>)
\* Two URLs whose md5 digests share their first 10 characters, d12fd6b648.
LogoK1  == Logo(<<[k |-> "v", v |-> <<"550054">>]>>)
LogoK2  == Logo(<<[k |-> "v", v |-> <<"1411962">>]>>)

LogoValues == {EmptyLogo, LogoWH, LogoHW, LogoBig, LogoK1, LogoK2}

\* The size of the logo the origin stores under a URL, and of no image.
StoredSize == <<400, 200>>
NoImage == <<0, 0>>

\* A schedule item: show_logo and the item's other fields.
Item(logo) == [show_logo |-> logo, title |-> "show"]

\* What a JSON file holds: shape says how far json.load and the shape tests
\* get; schedule is the list under "schedule" when shape = "ok", and
\* channel_name is the file's other top-level keys.
ReadShapes == {"unreadable", "toplevel_list", "schedule_not_list"}

Content(shape, schedule) ==
    [shape |-> shape, channel_name |-> "Zee TV", schedule |-> schedule]

SchedulesOfLen(n) == {[i \in 1..n |-> Item(f[i])] : f \in [1..n -> LogoValues]}

ContentsOfLen(n) ==
    {Content("ok", s) : s \in SchedulesOfLen(n)}
    \cup (IF n = 0 THEN {Content(sh, <<>>) : sh \in ReadShapes} ELSE {})

\* The contents of files a and b with at most maxItems schedule items in all.
Disks(a, b, maxItems) ==
    {(a :> c[1]) @@ (b :> c[2]) :
        c \in UNION {ContentsOfLen(p[1]) \X ContentsOfLen(p[2]) :
                        p \in {q \in (0..maxItems) \X (0..maxItems) :
                                  q[1] + q[2] <= maxItems}}}

(***************************************************************************)
(* The state.                                                              *)
(***************************************************************************)
VARIABLES
    disk,       \* the JSON files of the folders: index of JsonPaths -> content
    input,      \* what the upstream scraper wrote into them
    fs,         \* the files below OUTPUT_BASE: path text -> what the file
                \* holds, a whole image of some size or a part of one
    pc,         \* where main is
    files,      \* main's list of JSON files (line 278)
    cur,        \* the index in files of the file being processed
    per_file_downloaded,   \* line 186: text of a normalized URL -> local path
    tasks,      \* the tasks submitted to a pool (lines 217-241), each with
                \* the file whose pass submitted it
    wpc,        \* per task: where its download_and_convert_to_webp call is
    fd,         \* per task: where the file its save opened now is
    img,        \* per task: the size of the image its thread holds
    run,        \* the number of this run of main
    fetches,    \* calls of download_and_convert_to_webp in this run
    same_input, \* this run started from the input of the first one
    out1,       \* the JSON files as the first run left them
    \* scrape_epg.main
    filters,    \* the lines of filter_list.txt, or NoFile
    feeds,      \* the two EPG feeds: their channels and their programmes
    epc,        \* where scrape_epg.main is
    fidx,       \* the index in filters of the channel of this iteration
    written,    \* the JSON files written: <<day_dir, slug>> -> payload
    missing_lines,  \* line 202
    missing_log,    \* what missing_channels.log holds
    \* one call of parse_and_adjust_size and of the worker's resize
    n_url,      \* the URL given to parse_and_adjust_size
    n_width,    \* its target_width
    n_norm,     \* the URL it returned
    n_served,   \* the size of the image the origin serves for n_norm
    n_size,     \* the size of the image the worker converts for n_norm
    npc         \* how far the call is

mainVars == <<pc, files, cur, per_file_downloaded>>
poolVars == <<tasks, wpc, fd, img>>
runVars == <<input, run, same_input, out1>>
epgVars == <<filters, feeds, epc, fidx, written, missing_lines, missing_log>>
normVars == <<n_url, n_width, n_norm, n_served, n_size, npc>>
\* The variables of the downloader's batch.
batchVars == <<disk, fs, mainVars, poolVars, runVars, fetches>>

vars == <<batchVars, epgVars, normVars>>

(***************************************************************************)
(* process_json_file's pure parts.                                         *)
(***************************************************************************)
\* bool(item.get("show_logo")): a non-empty string
HasLogo(item) == UrlStr(item.show_logo) # ""

\* Lines 201-204: the indices of the items with a show_logo, in order.
to_update(schedule) ==
    SelectSeq([i \in 1..Len(schedule) |-> i], LAMBDA i : HasLogo(schedule[i]))

\* Lines 213-214: orig_to_norm[url].
orig_to_norm(url) == parse_and_adjust_size(url, TARGET_WIDTH)

RECURSIVE Distinct(_)
\* A sequence without its repetitions, each element at its first place.
Distinct(s) ==
    IF s = <<>> THEN <<>>
    ELSE <<s[1]>> \o SelectSeq(Distinct(Tail(s)), LAMBDA x : x # s[1])

\* norm_entries kept as a list that takes every item's URL, seen or not.
norm_entries_list(schedule) ==
    LET upd == to_update(schedule)
    IN  [i \in 1..Len(upd) |-> orig_to_norm(schedule[upd[i]].show_logo)]

\* Lines 209-215: the keys of norm_entries, in insertion order.
norm_entries(schedule) ==
    LET upd == to_update(schedule)
    IN  Distinct([i \in 1..Len(upd) |-> orig_to_norm(schedule[upd[i]].show_logo)])

\* local_path.exists()
Exists(files_, p) == PathStr(p) \in DOMAIN files_

\* The planner without its test of local_path.exists().
PlanTasksAlways(json_path, norms, files_) ==
    [i \in 1..Len(norms) |->
        [norm_url |-> norms[i], local_path |-> LocalPath(json_path, norms[i]),
         owner |-> json_path]]

\* Lines 217-233: the tasks, for the normalized URLs whose file is missing.
PlanTasks(json_path, norms, files_) ==
    LET todo == SelectSeq(norms, LAMBDA n : ~Exists(files_, LocalPath(json_path, n)))
    IN  [i \in 1..Len(todo) |->
            [norm_url |-> todo[i], local_path |-> LocalPath(json_path, todo[i]),
             owner |-> json_path]]

\* Lines 229-231: the normalized URLs whose file is already there.
PlanDownloaded(json_path, norms, files_) ==
    LET have == {i \in 1..Len(norms) : Exists(files_, LocalPath(json_path, norms[i]))}
    IN  [s \in {UrlStr(norms[i]) : i \in have} |->
            LocalPath(json_path, CHOOSE n \in {norms[i] : i \in have} : UrlStr(n) = s)]

\* The re-check taking every task for done, its file there or not.
RecheckedUnseen(tasks_, files_, downloaded) ==
    [s \in {UrlStr(tasks_[i].norm_url) : i \in 1..Len(tasks_)} |->
        (CHOOSE t \in {tasks_[i] : i \in 1..Len(tasks_)} :
            UrlStr(t.norm_url) = s).local_path]
    @@ downloaded

\* Lines 246-250: the tasks whose file exists after the downloads.
Rechecked(tasks_, files_, downloaded) ==
    LET have == {i \in 1..Len(tasks_) : Exists(files_, tasks_[i].local_path)}
    IN  [s \in {UrlStr(tasks_[i].norm_url) : i \in have} |->
            (CHOOSE t \in {tasks_[i] : i \in have} : UrlStr(t.norm_url) = s).local_path]
        @@ downloaded

\* The rewriter giving up on the whole file when one URL has no artifact.
RewrittenAllOrNone(json_path, schedule, downloaded) ==
    IF \A i \in 1..Len(schedule) :
           HasLogo(schedule[i]) =>
               UrlStr(orig_to_norm(schedule[i].show_logo)) \in DOMAIN downloaded
    THEN [i \in 1..Len(schedule) |->
            IF HasLogo(schedule[i])
            THEN [schedule[i] EXCEPT !.show_logo =
                     PublicUrl(json_path,
                               downloaded[UrlStr(orig_to_norm(schedule[i].show_logo))])]
            ELSE schedule[i]]
    ELSE schedule

\* The rewriter keeping only the items that have a show_logo.
RewrittenLogosOnly(json_path, schedule, downloaded) ==
    LET upd == to_update(schedule)
    IN  [i \in 1..Len(upd) |->
            IF UrlStr(orig_to_norm(schedule[upd[i]].show_logo)) \in DOMAIN downloaded
            THEN [schedule[upd[i]] EXCEPT !.show_logo =
                     PublicUrl(json_path,
                               downloaded[UrlStr(orig_to_norm(schedule[upd[i]].show_logo))])]
            ELSE schedule[upd[i]]]

\* Lines 252-261: the schedule with the resolved items rewritten.
Rewritten(json_path, schedule, downloaded) ==
    [i \in 1..Len(schedule) |->
        IF HasLogo(schedule[i])
           /\ UrlStr(orig_to_norm(schedule[i].show_logo)) \in DOMAIN downloaded
        THEN [schedule[i] EXCEPT !.show_logo =
                 PublicUrl(json_path,
                           downloaded[UrlStr(orig_to_norm(schedule[i].show_logo))])]
        ELSE schedule[i]]

\* The indices of the tasks the pass of json_path submitted.
TasksOf(tasks_, json_path) ==
    {i \in 1..Len(tasks_) : tasks_[i].owner = json_path}

\* The wait ending with the first task that completes.
AllTerminalFirst(tasks_, wpc_, json_path) ==
    \E i \in TasksOf(tasks_, json_path) : wpc_[i] \in {"ok", "failed"}

\* Lines 237-244: leaving the with block waits for every task submitted to
\* its pool.
AllTerminal(tasks_, wpc_, json_path) ==
    \A i \in TasksOf(tasks_, json_path) : wpc_[i] \in {"ok", "failed"}

\* The tasks a pool thread is running.
Running(wpc_) == {i \in 1..Len(wpc_) : wpc_[i] \notin {"queued", "ok", "failed"}}

\* A pool that starts a thread for every task it is given.
CanStartUnbounded(tasks_, wpc_, i) == wpc_[i] = "queued"

\* ThreadPoolExecutor(max_workers=MAX_WORKERS), line 237: the pool of a pass
\* hands its next queued task to a thread when fewer than MAX_WORKERS of its
\* threads are busy.
CanStart(tasks_, wpc_, i) ==
    LET mine == TasksOf(tasks_, tasks_[i].owner)
    IN  /\ wpc_[i] = "queued"
        /\ \A j \in mine : j < i => wpc_[j] # "queued"
        /\ Cardinality(mine \cap Running(wpc_)) < MAX_WORKERS

\* gather_json_files(FOLDERS), lines 267-274: the files of each folder, the
\* folders in order.
gather_json_files(disk_) ==
    LET ids == [i \in 1..Len(JsonPaths) |-> i]
        InFolder(f) == SelectSeq(ids, LAMBDA i : i \in DOMAIN disk_
                                               /\ JsonPaths[i].folder = f)
    IN  InFolder(FOLDERS[1]) \o InFolder(FOLDERS[2])

CurPath == JsonPaths[files[cur]]
CurData == disk[files[cur]]
\* The tasks of the file being processed, in order (line 217).
CurTasks == SelectSeq(tasks, LAMBDA t : t.owner = CurPath)

(***************************************************************************)
(* scrape_epg.py: the inputs and the pure parts of main.                   *)
(***************************************************************************)
TODAY_DIR == "today"
TOMORROW_DIR == "tomorrow"

\* The channel names of the model, as their characters.
EpgNames == <<<<"Z", "e", "e", " ", "T", "V">>, <<"T", "o", "d", "a", "y">>>>

\* What is read where no file is: os.path.exists(FILTER_FILE) is false.
NoFile == <<"no file">>

\* The lists of at most n elements of a set.
SeqsUpTo(S, n) == UNION {[1..k -> S] : k \in 0..n}

\* The programme elements of the feeds: the feed, the channel (an index of
\* EpgNames stands for the channel's id) and the IST day and the time of
\* the start.
Programmes ==
    [feed : {"jio", "tata"}, channel_id : 1..Len(EpgNames),
     day : {"today", "tomorrow", "later"}, start : 1..2]

\* parse_programmes(root), lines 88-128: the programmes of one feed.
parse_programmes(all, feed) ==
    LET mine == SelectSeq(all, LAMBDA p : p.feed = feed)
    IN  [i \in 1..Len(mine) |->
            [channel_id |-> mine[i].channel_id, day |-> mine[i].day,
             start |-> mine[i].start, title |-> "show",
             icon |-> "https://cdn.example.com/logos/show.png?lock=100x50&v=1"]]

\* The feeds main downloads: the channels each lists and its programmes.
Feeds(maxProgs) ==
    {[jio  |-> [channels |-> jc, programmes |-> parse_programmes(all, "jio")],
      tata |-> [channels |-> tc, programmes |-> parse_programmes(all, "tata")]] :
        jc \in SUBSET (1..Len(EpgNames)), tc \in SUBSET (1..Len(EpgNames)),
        all \in SeqsUpTo(Programmes, maxProgs)}

\* The characters slugify keeps (line 43).
SlugChars ==
    {"a", "b", "c", "d", "e", "f", "g", "h", "i", "j", "k", "l", "m", "n", "o",
     "p", "q", "r", "s", "t", "u", "v", "w", "x", "y", "z", "0", "1", "2", "3",
     "4", "5", "6", "7", "8", "9", "-"}

RECURSIVE Squeeze(_)
\* re.sub(r"-{2,}", "-", name), with the runs of white space already "-".
Squeeze(cs) ==
    IF Len(cs) < 2 THEN cs
    ELSE IF cs[1] = "-" /\ cs[2] = "-" THEN Squeeze(Tail(cs))
    ELSE <<cs[1]>> \o Squeeze(Tail(cs))

RECURSIVE StripLeft(_, _)
StripLeft(cs, c) ==
    IF cs # <<>> /\ cs[1] = c THEN StripLeft(Tail(cs), c) ELSE cs

RECURSIVE StripRight(_, _)
StripRight(cs, c) ==
    IF cs # <<>> /\ cs[Len(cs)] = c
    THEN StripRight(SubSeq(cs, 1, Len(cs) - 1), c) ELSE cs

\* str.strip(c)
Strip(cs, c) == StripRight(StripLeft(cs, c), c)

\* slugify(name), lines 40-46.
slugify(name) ==
    LET lowered == LowerSeq(Strip(name, " "))
        dashed == Squeeze([i \in 1..Len(lowered) |->
                              IF lowered[i] = " " THEN "-" ELSE lowered[i]])
        kept == SelectSeq(dashed, LAMBDA c : c \in SlugChars)
        slug == Strip(Squeeze(kept), "-")
    IN  IF slug = <<>> THEN "channel" ELSE JoinStr(slug, "")

\* Line 176: lower_filters, the dict's items in order: each lowered name
\* once, at its first place, with the last line that lowers to it.
lower_filters(lines) ==
    LET keys == Distinct([i \in 1..Len(lines) |-> LowerSeq(lines[i])])
    IN  [i \in 1..Len(keys) |->
            [filt_lower |-> keys[i],
             filt_original |->
                lines[CHOOSE j \in 1..Len(lines) :
                         /\ LowerSeq(lines[j]) = keys[i]
                         /\ \A l \in (j + 1)..Len(lines) :
                               LowerSeq(lines[l]) # keys[i]]]]

\* Lines 185-189: filt_lower in the name_to_id of a feed.
InFeed(feed, filt_lower) ==
    \E c \in feed.channels : LowerSeq(EpgNames[c]) = filt_lower

\* jio_name_to_id[filt_lower]
IdIn(feed, filt_lower) ==
    CHOOSE c \in feed.channels : LowerSeq(EpgNames[c]) = filt_lower

\* group_by_channel(programmes).get(ch_id, []), lines 131-135 and 219.
group_by_channel(programmes, ch_id) ==
    SelectSeq(programmes, LAMBDA p : p.channel_id = ch_id)

RECURSIVE SortByStart(_)
\* list.sort(key=start_time): stable, ascending (line 162).
SortByStart(s) ==
    IF s = <<>> THEN <<>>
    ELSE LET rest == SortByStart(Tail(s))
             before == SelectSeq(rest, LAMBDA x : x.start_time < s[1].start_time)
             after == SelectSeq(rest, LAMBDA x : x.start_time >= s[1].start_time)
         IN  before \o <<s[1]>> \o after

\* build_schedule_for_day(channel_progs, day_date), lines 150-163.
build_schedule_for_day(channel_progs, day_date) ==
    LET mine == SelectSeq(channel_progs, LAMBDA p : p.day = day_date)
    IN  SortByStart([i \in 1..Len(mine) |->
                        [show_name |-> mine[i].title,
                         start_time |-> mine[i].start,
                         show_logo |-> mine[i].icon]])

\* Lines 205-219: the source of a channel and its programmes.
SourceOf(feeds_, filt_lower) ==
    IF InFeed(feeds_.jio, filt_lower) THEN "jio"
    ELSE IF InFeed(feeds_.tata, filt_lower) THEN "tata"
    ELSE "none"

ChannelProgs(feeds_, filt_lower) ==
    LET feed == IF SourceOf(feeds_, filt_lower) = "jio" THEN feeds_.jio
                ELSE feeds_.tata
    IN  group_by_channel(feed.programmes, IdIn(feed, filt_lower))

\* Lines 230-241: the two files of a channel are written.
Saved(files_, filt_original, schedule_today, schedule_tomorrow) ==
    LET payload(day, schedule) ==
            [channel_name |-> JoinStr(filt_original, ""), date |-> day,
             schedule |-> schedule]
    IN  (<<TOMORROW_DIR, slugify(filt_original)>> :> payload("tomorrow", schedule_tomorrow))
        @@ (<<TODAY_DIR, slugify(filt_original)>> :> payload("today", schedule_today))
        @@ files_

\* The scraper is not run.
EpgIdle ==
    /\ filters = NoFile
    /\ feeds = <<>>
    /\ epc = "off"
    /\ fidx = 0
    /\ written = <<>>
    /\ missing_lines = <<>>
    /\ missing_log = NoFile

\* scrape_epg.main is called: a filter list of at most maxChannels lines, or
\* none, and feeds with at most maxProgs programmes.
EpgInit(maxChannels, maxProgs) ==
    /\ filters \in {NoFile}
                   \cup SeqsUpTo({EpgNames[c] : c \in 1..Len(EpgNames)}, maxChannels)
    /\ feeds \in Feeds(maxProgs)
    /\ epc = "start"
    /\ fidx = 0
    /\ written = <<>>
    /\ missing_lines = <<>>
    /\ missing_log = NoFile

(***************************************************************************)
(* One call of parse_and_adjust_size and of the worker's resize: the       *)
(* inputs.                                                                 *)
(***************************************************************************)
\* The values of a lock parameter, as their parts between the letters "x".
LockDirectives ==
    {<<"100", "50">>, <<"200", "100">>, <<"100", "125">>, <<"100", "0">>,
     <<"0", "50">>, <<"abc", "def">>, <<"100", "def">>, <<"100", "50", "2">>,
     <<"250">>}

\* The query parameters of the URLs.
Params ==
    {[k |-> "lock", v |-> d] : d \in LockDirectives}
    \cup {[k |-> "v", v |-> <<"1">>], [k |-> "v", v |-> <<"2">>],
          [k |-> "unlock", v |-> <<"1">>]}

\* The URLs with at most maxParams query parameters.
Urls(maxParams) == {Logo(q) : q \in SeqsUpTo(Params, maxParams)}

\* The values of target_width.
TargetWidths == {100, TARGET_WIDTH}

\* The sizes of the logos the origin stores.
StoredSizes == {StoredSize, <<250, 1001>>}

\* Nothing is normalized.
NormIdle ==
    /\ n_url = EmptyLogo
    /\ n_width = TARGET_WIDTH
    /\ n_norm = EmptyLogo
    /\ n_served = NoImage
    /\ n_size = NoImage
    /\ npc = "off"

\* parse_and_adjust_size is about to be called.
NormInit(maxParams) ==
    /\ n_url \in Urls(maxParams)
    /\ n_width \in TargetWidths
    /\ n_norm = EmptyLogo
    /\ n_served = NoImage
    /\ n_size = NoImage
    /\ npc = "in"

(***************************************************************************)
(* Initial states.                                                         *)
(***************************************************************************)
\* The downloader is about to run over the files of disks.
InitBatch(disks) ==
    /\ disk \in disks
    /\ input = disk
    /\ fs = <<>>
    /\ pc = "start"
    /\ files = <<>>
    /\ cur = 0
    /\ per_file_downloaded = <<>>
    /\ tasks = <<>>
    /\ wpc = <<>>
    /\ fd = <<>>
    /\ img = <<>>
    /\ run = 1
    /\ fetches = 0
    /\ same_input = FALSE
    /\ out1 = <<>>

InitWith(disks) == InitBatch(disks) /\ EpgIdle /\ NormIdle

\* One file in each folder, MaxItems schedule items in all.
Init == InitWith(Disks(1, 2, MaxItems))

\* The same for a batch that is run again.
InitRerun == InitWith(Disks(1, 2, MaxRerunItems))

\* A file in today and, in tomorrow, the file of a channel named Today.
InitDay == InitWith(Disks(1, 3, MaxDayItems))

\* The scraper alone.
InitEpg == InitBatch({<<>>}) /\ EpgInit(MaxChannels, MaxProgs) /\ NormIdle

\* The normalizer and the conversion alone.
InitNorm == InitBatch({<<>>}) /\ EpgIdle /\ NormInit(MaxParams)

(***************************************************************************)
(* main and process_json_file.                                             *)
(***************************************************************************)
\* Lines 278-279.
Gather ==
    /\ pc = "start"
    /\ files' = gather_json_files(disk)
    /\ cur' = 1
    /\ pc' = "loop"
    /\ UNCHANGED <<disk, fs, per_file_downloaded, poolVars, runVars, fetches, epgVars, normVars>>

\* process_json_file returns to main's loop (lines 281-282).
NextFile ==
    /\ cur' = cur + 1
    /\ pc' = "loop"
    /\ UNCHANGED files

\* Lines 186-192: json.load raises, the file is skipped.
ReadFails ==
    /\ pc = "loop" /\ cur <= Len(files)
    /\ CurData.shape = "unreadable"
    /\ NextFile
    /\ per_file_downloaded' = <<>>
    /\ UNCHANGED <<disk, fs, poolVars, runVars, fetches, epgVars, normVars>>

\* Line 197: data.get on a JSON value that is no object raises
\* AttributeError, which nothing catches: main ends with the traceback.
ReadRaises ==
    /\ pc = "loop" /\ cur <= Len(files)
    /\ CurData.shape = "toplevel_list"
    /\ pc' = "aborted"
    /\ per_file_downloaded' = <<>>
    /\ UNCHANGED <<disk, fs, files, cur, poolVars, runVars, fetches, epgVars, normVars>>

\* Lines 197-207: no list under "schedule", or no item with a show_logo.
NothingToDo ==
    /\ pc = "loop" /\ cur <= Len(files)
    /\ \/ CurData.shape = "schedule_not_list"
       \/ CurData.shape = "ok" /\ to_update(CurData.schedule) = <<>>
    /\ NextFile
    /\ per_file_downloaded' = <<>>
    /\ UNCHANGED <<disk, fs, poolVars, runVars, fetches, epgVars, normVars>>

\* Lines 209-241: normalize, plan and submit the tasks.
PlanFile ==
    /\ pc = "loop" /\ cur <= Len(files)
    /\ CurData.shape = "ok" /\ to_update(CurData.schedule) # <<>>
    /\ LET norms == norm_entries(CurData.schedule)
           new == PlanTasks(CurPath, norms, fs)
           \* the threads of an earlier pool that still run stay
           left == SelectSeq([i \in 1..Len(tasks) |-> i],
                             LAMBDA i : wpc[i] \notin {"ok", "failed"})
           old(s) == [i \in 1..Len(left) |-> s[left[i]]]
       IN  /\ per_file_downloaded' = PlanDownloaded(CurPath, norms, fs)
           /\ tasks' = old(tasks) \o new
           /\ wpc' = old(wpc) \o [i \in 1..Len(new) |-> "queued"]
           /\ fd' = old(fd) \o [i \in 1..Len(new) |-> "none"]
           /\ img' = old(img) \o [i \in 1..Len(new) |-> NoImage]
           /\ pc' = IF new = <<>> THEN "rewrite" ELSE "fetch"
    /\ UNCHANGED <<disk, fs, files, cur, runVars, fetches, epgVars, normVars>>

\* Lines 237-244: the with block is left.
PoolExit ==
    /\ pc = "fetch"
    /\ AllTerminal(tasks, wpc, CurPath)
    /\ pc' = "recheck"
    /\ UNCHANGED <<disk, fs, files, cur, per_file_downloaded, poolVars,
                   runVars, fetches, epgVars, normVars>>

\* Lines 246-250.
Recheck ==
    /\ pc = "recheck"
    /\ per_file_downloaded' = Rechecked(CurTasks, fs, per_file_downloaded)
    /\ pc' = "rewrite"
    /\ UNCHANGED <<disk, fs, files, cur, poolVars, runVars, fetches, epgVars, normVars>>

\* Lines 252-264: rewrite the items and write the file.
Rewrite ==
    /\ pc = "rewrite"
    /\ disk' = [disk EXCEPT ![files[cur]].schedule =
                   Rewritten(CurPath, CurData.schedule, per_file_downloaded)]
    /\ NextFile
    /\ UNCHANGED <<fs, per_file_downloaded, poolVars, runVars, fetches, epgVars, normVars>>

\* Line 284: "All done."
AllDone ==
    /\ pc = "loop" /\ cur > Len(files)
    /\ pc' = "done"
    /\ out1' = IF run = 1 THEN disk ELSE out1
    /\ UNCHANGED <<disk, fs, files, cur, per_file_downloaded, poolVars,
                   input, run, same_input, fetches, epgVars, normVars>>

(***************************************************************************)
(* download_and_convert_to_webp (lines 137-181), one pool thread per task. *)
(***************************************************************************)
FinalOf(i) == PathStr(tasks[i].local_path)
TmpOf(i) == PathStr(TmpPath(tasks[i].local_path))

\* A file system without the file at path.
Without(files_, path) == [p \in DOMAIN files_ \ {path} |-> files_[p]]

\* A file system with content at path.
With(files_, path, content) ==
    [p \in DOMAIN files_ \cup {path} |-> IF p = path THEN content ELSE files_[p]]

\* A whole encoded image of a size, and a file that is less than one.
Whole(size) == [state |-> "complete", size |-> size]
Partial == [state |-> "partial", size |-> NoImage]

\* Line 156: the marker "lock=" occurs in the text of the URL.
HasLockMarker(url) ==
    \E i \in 1..Len(url.query) : url.query[i].k \in {"lock", "unlock"}

\* The size of the image the origin serves for a URL: the size its lock
\* directive asks for, else the size of the logo it stores.
ServedSize(url, stored) ==
    LET qs == parse_qs(url.query)
    IN  IF HasKey(qs, "lock") /\ Len(Lookup(qs, "lock")[1]) = 2
           /\ \A p \in 1..2 : IsIntStr(Lookup(qs, "lock")[1][p])
                              /\ IntOfStr(Lookup(qs, "lock")[1][p]) > 0
        THEN <<IntOfStr(Lookup(qs, "lock")[1][1]), IntOfStr(Lookup(qs, "lock")[1][2])>>
        ELSE stored

\* The sizes <<w, h>> of the model for which the double (h / w) * 250 lies
\* below the integer h * 250 / w: (1001 / 250) * 250 is 1000.9999999999999.
FloatShort == {<<250, 1001>>}

\* Line 159: int((h / w) * new_w), the product computed in doubles.
ScaledHeight(size, new_w) ==
    (size[2] * new_w) \div size[1] - (IF size \in FloatShort THEN 1 ELSE 0)

\* The worker without its local resize.
ResizedNever(norm_url, size) == size

\* Lines 156-160: the size after the local resize.
Resized(norm_url, size) ==
    IF ~HasLockMarker(norm_url)
    THEN <<TARGET_WIDTH, ScaledHeight(size, TARGET_WIDTH)>>
    ELSE size

\* A pool thread takes the task and calls download_and_convert_to_webp.
Start(i) ==
    /\ CanStart(tasks, wpc, i)
    /\ wpc' = [wpc EXCEPT ![i] = "get"]
    /\ fetches' = fetches + 1
    /\ UNCHANGED <<disk, fs, mainVars, tasks, fd, img, runVars, epgVars, normVars>>

\* Lines 141-148: the GET and the reading of the body.
Get(i) ==
    /\ wpc[i] = "get"
    /\ \/ wpc' = [wpc EXCEPT ![i] = "decode"]
       \/ wpc' = [wpc EXCEPT ![i] = "except"]
    /\ UNCHANGED <<disk, fs, mainVars, tasks, fd, img, runVars, fetches, epgVars, normVars>>

\* Lines 151-167: decode, resize when the URL has no "lock=", convert.
Decode(i) ==
    /\ wpc[i] = "decode"
    /\ \/ /\ wpc' = [wpc EXCEPT ![i] = "save"]
          /\ img' = [img EXCEPT ![i] =
                        Resized(tasks[i].norm_url,
                                 ServedSize(tasks[i].norm_url, StoredSize))]
       \/ /\ wpc' = [wpc EXCEPT ![i] = "except"]
          /\ UNCHANGED img
    /\ UNCHANGED <<disk, fs, mainVars, tasks, fd, runVars, fetches, epgVars, normVars>>

\* Line 168, first half: img.save opens tmp for writing, which creates it or
\* empties the file that is there.
SaveOpen(i) ==
    /\ wpc[i] = "save"
    /\ fs' = With(fs, TmpOf(i), Partial)
    /\ fd' = [fd EXCEPT ![i] = "tmp"]
    /\ wpc' = [wpc EXCEPT ![i] = "write"]
    /\ UNCHANGED <<disk, mainVars, tasks, img, runVars, fetches, epgVars, normVars>>

\* What a file holds after an encoded image was written over old from its
\* start: the image, or, when old was a longer image, the new image followed
\* by the rest of the old one.
Written(old, size) ==
    IF old.state = "complete" THEN {Whole(size), Partial} ELSE {Whole(size)}

\* Line 168, second half: the encoder runs and the bytes are written to the
\* open file, wherever a rename has moved it since.
SaveWrite(i) ==
    /\ wpc[i] = "write"
    /\ \/ /\ wpc' = [wpc EXCEPT ![i] = "rename"]
          /\ \/ /\ fd[i] = "tmp"
                /\ \E c \in Written(fs[TmpOf(i)], img[i]) :
                      fs' = With(fs, TmpOf(i), c)
             \/ /\ fd[i] = "final"
                /\ \E c \in Written(fs[FinalOf(i)], img[i]) :
                      fs' = With(fs, FinalOf(i), c)
             \/ /\ fd[i] = "unlinked"
                /\ fs' = fs
       \/ /\ wpc' = [wpc EXCEPT ![i] = "except"]
          /\ fs' = fs
    /\ fd' = [fd EXCEPT ![i] = "none"]
    /\ UNCHANGED <<disk, mainVars, tasks, img, runVars, fetches, epgVars, normVars>>

\* Where the open files are after the file at tmp was moved to final
\* (to = "final") or removed (to = "unlinked").
Moved(tmp, final, to) ==
    [j \in 1..Len(fd) |->
        IF fd[j] = "tmp" /\ TmpOf(j) = tmp THEN to
        ELSE IF fd[j] = "final" /\ FinalOf(j) = final /\ to = "final"
        THEN "unlinked"
        ELSE fd[j]]

\* Lines 170-171: tmp.replace(save_path), then return True; with no file at
\* tmp the rename raises.
Rename(i) ==
    /\ wpc[i] = "rename"
    /\ IF TmpOf(i) \in DOMAIN fs
       THEN /\ fs' = With(Without(fs, TmpOf(i)), FinalOf(i), fs[TmpOf(i)])
            /\ fd' = Moved(TmpOf(i), FinalOf(i), "final")
            /\ wpc' = [wpc EXCEPT ![i] = "ok"]
            /\ img' = [img EXCEPT ![i] = NoImage]
       ELSE /\ wpc' = [wpc EXCEPT ![i] = "except"]
            /\ UNCHANGED <<fs, fd, img>>
    /\ UNCHANGED <<disk, mainVars, tasks, runVars, fetches, epgVars, normVars>>

\* Lines 173-181: the handlers remove tmp and return False.
Except(i) ==
    /\ wpc[i] = "except"
    /\ fs' = Without(fs, TmpOf(i))
    /\ fd' = Moved(TmpOf(i), FinalOf(i), "unlinked")
    /\ wpc' = [wpc EXCEPT ![i] = "failed"]
    /\ img' = [img EXCEPT ![i] = NoImage]
    /\ UNCHANGED <<disk, mainVars, tasks, runVars, fetches, epgVars, normVars>>

Worker ==
    \E i \in 1..Len(tasks) :
        \/ Start(i) \/ Get(i) \/ Decode(i) \/ SaveOpen(i)
        \/ SaveWrite(i) \/ Rename(i) \/ Except(i)

(***************************************************************************)
(* A later run of main over the same folders.                              *)
(***************************************************************************)
NewRun ==
    /\ pc = "done"
    /\ run < MaxRuns
    /\ run' = run + 1
    /\ pc' = "start"
    /\ files' = <<>>
    /\ cur' = 0
    /\ per_file_downloaded' = <<>>
    /\ tasks' = <<>>
    /\ wpc' = <<>>
    /\ fd' = <<>>
    /\ img' = <<>>
    /\ fetches' = 0
    /\ UNCHANGED <<fs, input, out1, epgVars, normVars>>

\* The upstream scraper has written the same schedule files again.
RerunSameInput ==
    /\ NewRun
    /\ disk' = input
    /\ same_input' = TRUE

\* main runs again over the files as it left them.
RerunInPlace ==
    /\ NewRun
    /\ disk' = disk
    /\ same_input' = FALSE

(***************************************************************************)
(* scrape_epg.main (lines 166-247).                                        *)
(***************************************************************************)
\* Lines 169-171: no filter file, main returns.
EpgNoFilter ==
    /\ epc = "start"
    /\ filters = NoFile
    /\ epc' = "returned"
    /\ UNCHANGED <<filters, feeds, fidx, written, missing_lines, missing_log,
                   batchVars, normVars>>

\* Lines 173-202: the filter list is read, the feeds are downloaded and
\* parsed.
EpgLoad ==
    /\ epc = "start"
    /\ filters # NoFile
    /\ epc' = "loop"
    /\ fidx' = 1
    /\ UNCHANGED <<filters, feeds, written, missing_lines, missing_log,
                   batchVars, normVars>>

\* Lines 179-182: a download or the parsing of a feed raises.
EpgLoadRaises ==
    /\ epc = "start"
    /\ filters # NoFile
    /\ epc' = "aborted"
    /\ UNCHANGED <<filters, feeds, fidx, written, missing_lines, missing_log,
                   batchVars, normVars>>

\* The channel of this iteration of the loop of line 204.
CurFilter == lower_filters(filters)[fidx]

InLoop == epc = "loop" /\ fidx <= Len(lower_filters(filters))

\* Lines 214-216: the channel is in neither feed.
EpgNotFound ==
    /\ InLoop
    /\ SourceOf(feeds, CurFilter.filt_lower) = "none"
    /\ missing_lines' = Append(missing_lines,
                               [channel |-> CurFilter.filt_original,
                                why |-> "not found"])
    /\ fidx' = fidx + 1
    /\ UNCHANGED <<filters, feeds, epc, written, missing_log, batchVars, normVars>>

\* Lines 221-227: both schedules are empty.
EpgNoProgrammes ==
    /\ InLoop
    /\ SourceOf(feeds, CurFilter.filt_lower) # "none"
    /\ LET channel_progs == ChannelProgs(feeds, CurFilter.filt_lower)
       IN  /\ build_schedule_for_day(channel_progs, "today") = <<>>
           /\ build_schedule_for_day(channel_progs, "tomorrow") = <<>>
    /\ missing_lines' = Append(missing_lines,
                               [channel |-> CurFilter.filt_original,
                                why |-> "no programmes"])
    /\ fidx' = fidx + 1
    /\ UNCHANGED <<filters, feeds, epc, written, missing_log, batchVars, normVars>>

\* Lines 221-241: a schedule is not empty, the files are saved.
EpgSave ==
    /\ InLoop
    /\ SourceOf(feeds, CurFilter.filt_lower) # "none"
    /\ LET channel_progs == ChannelProgs(feeds, CurFilter.filt_lower)
           schedule_today == build_schedule_for_day(channel_progs, "today")
           schedule_tomorrow == build_schedule_for_day(channel_progs, "tomorrow")
       IN  /\ ~(schedule_today = <<>> /\ schedule_tomorrow = <<>>)
           /\ written' = Saved(written, CurFilter.filt_original,
                               schedule_today, schedule_tomorrow)
    /\ fidx' = fidx + 1
    /\ UNCHANGED <<filters, feeds, epc, missing_lines, missing_log,
                   batchVars, normVars>>

\* Lines 243-247: the log of the missing channels is written.
EpgWriteLog ==
    /\ epc = "loop" /\ fidx > Len(lower_filters(filters))
    /\ missing_log' = missing_lines
    /\ epc' = "done"
    /\ UNCHANGED <<filters, feeds, fidx, written, missing_lines,
                   batchVars, normVars>>

NextEpg ==
    \/ EpgNoFilter \/ EpgLoad \/ EpgLoadRaises \/ EpgNotFound
    \/ EpgNoProgrammes \/ EpgSave \/ EpgWriteLog

(***************************************************************************)
(* One URL through the normalizer and the worker's conversion.             *)
(***************************************************************************)
\* Lines 213-214: norm = parse_and_adjust_size(url, target_width).
NormCall ==
    /\ npc = "in"
    /\ n_norm' = parse_and_adjust_size(n_url, n_width)
    /\ npc' = "normalized"
    /\ UNCHANGED <<n_url, n_width, n_served, n_size, batchVars, epgVars>>

\* Lines 141-167 for a URL normalized to TARGET_WIDTH: the image the origin
\* serves is decoded and, when the URL has no "lock=", resized.
NormConvert ==
    /\ npc = "normalized"
    /\ n_width = TARGET_WIDTH
    /\ \E stored \in StoredSizes :
          /\ n_served' = ServedSize(n_norm, stored)
          /\ n_size' = Resized(n_norm, ServedSize(n_norm, stored))
    /\ npc' = "converted"
    /\ UNCHANGED <<n_url, n_width, n_norm, batchVars, epgVars>>

NextNorm == NormCall \/ NormConvert

Main ==
    \/ Gather \/ ReadFails \/ ReadRaises \/ NothingToDo \/ PlanFile
    \/ PoolExit \/ Recheck \/ Rewrite \/ AllDone

Next == Main \/ Worker

NextRerun == Next \/ RerunSameInput \/ RerunInPlace

Spec == Init /\ [][Next]_vars

SpecRerun == InitRerun /\ [][NextRerun]_vars

SpecDay == InitDay /\ [][Next]_vars

SpecEpg == InitEpg /\ [][NextEpg]_vars

SpecNorm == InitNorm /\ [][NextNorm]_vars


(***************************************************************************)
(* The claims.                                                             *)
(***************************************************************************)
\* The step in which process_json_file rewrites and writes its file.
RewriteStep == pc = "rewrite" /\ pc' = "loop"

\* The tasks of the current pass for a normalized URL.
TasksFor(norm) == {k \in TasksOf(tasks, CurPath) : tasks[k].norm_url = norm}

\* A show_logo that is a public URL.
IsPublic(logo) == logo.host = WP_PREFIX

\* C1: in one pass, two items whose show_logo URLs normalize to the same
\* NormalizedURL get at most one task for it, and when its artifact exists
\* after the fetch phase both items are rewritten to the one public URL
\* that names it.
C1_DedupOneTaskOneArtifact ==
    [][RewriteStep =>
        \A i, j \in 1..Len(CurData.schedule) :
            LET a == CurData.schedule[i]
                b == CurData.schedule[j]
                n == orig_to_norm(a.show_logo)
                local == LocalPath(CurPath, n)
            IN  (HasLogo(a) /\ HasLogo(b) /\ orig_to_norm(b.show_logo) = n) =>
                    /\ Cardinality(TasksFor(n)) <= 1
                    /\ Exists(fs, local) =>
                          /\ disk'[files[cur]].schedule[i].show_logo
                                = PublicUrl(CurPath, local)
                          /\ disk'[files[cur]].schedule[j].show_logo
                                = PublicUrl(CurPath, local)]_vars

\* Two items with different URLs of one NormalizedURL were fetched by one
\* task and rewritten to the same public URL.
C1_Witness ==
    /\ pc = "loop" /\ cur = 2
    /\ \E i, j \in 1..Len(input[files[1]].schedule) :
          /\ input[files[1]].schedule[i].show_logo = LogoWH
          /\ input[files[1]].schedule[j].show_logo = LogoBig
          /\ IsPublic(disk[files[1]].schedule[i].show_logo)
          /\ disk[files[1]].schedule[i] = disk[files[1]].schedule[j]
    /\ Len(tasks) = 1 /\ wpc[1] = "ok" /\ fetches = 1

\* Every show_logo of the files is resolved: a public URL.
AllResolved(d) ==
    \A f \in DOMAIN d : \A i \in 1..Len(d[f].schedule) :
        HasLogo(d[f].schedule[i]) => IsPublic(d[f].schedule[i].show_logo)

C3_FinalWholeOrAbsent ==
    \A k \in 1..Len(tasks) :
        FinalOf(k) \in DOMAIN fs => fs[FinalOf(k)].state = "complete"

\* C4: when download_and_convert_to_webp returns True the artifact is at
\* the target path, and when it returns False neither the target path nor
\* the temporary path holds a file.
C4_ReturnMatchesFiles ==
    [][tasks' = tasks =>
        \A k \in 1..Len(tasks) :
            /\ (wpc[k] # "ok" /\ wpc'[k] = "ok") => FinalOf(k) \in DOMAIN fs'
            /\ (wpc[k] # "failed" /\ wpc'[k] = "failed") =>
                  /\ FinalOf(k) \notin DOMAIN fs'
                  /\ TmpOf(k) \notin DOMAIN fs']_vars

\* C5: in the file a pass writes, every item whose NormalizedURL has an
\* artifact after the fetch phase holds its public URL and every other
\* item with a show_logo holds the URL it had.
C5_FailureIsolation ==
    [][RewriteStep =>
        \A i \in 1..Len(CurData.schedule) :
            LET a == CurData.schedule[i]
                local == LocalPath(CurPath, orig_to_norm(a.show_logo))
            IN  HasLogo(a) =>
                    disk'[files[cur]].schedule[i].show_logo
                        = IF Exists(fs, local) THEN PublicUrl(CurPath, local)
                          ELSE a.show_logo]_vars

\* A pass has written a file in which one item is rewritten and another,
\* whose fetch failed, holds its original URL.
C5_Witness ==
    /\ pc = "loop" /\ cur = 2
    /\ \E i, j \in 1..Len(disk[files[1]].schedule) :
          /\ IsPublic(disk[files[1]].schedule[i].show_logo)
          /\ HasLogo(disk[files[1]].schedule[j])
          /\ disk[files[1]].schedule[j] = input[files[1]].schedule[j]
    /\ \E k \in 1..Len(tasks) : wpc[k] = "failed"
    /\ \E k \in 1..Len(tasks) : wpc[k] = "ok"

\* C6: no file makes main end before its last line: the batch never aborts.
C6_BatchNeverAborts == pc # "aborted"

\* C7: the re-check of the paths, the rewriting and the writing of a file
\* happen only when every task submitted for it has returned.
C7_ActsAfterAllTerminal ==
    pc \in {"recheck", "rewrite"} =>
        \A k \in TasksOf(tasks, CurPath) : wpc[k] \in {"ok", "failed"}

\* main is about to rewrite a file of which one task succeeded and one
\* failed.
C7_Witness ==
    /\ pc = "rewrite"
    /\ \E k \in TasksOf(tasks, CurPath) : wpc[k] = "ok"
    /\ \E k \in TasksOf(tasks, CurPath) : wpc[k] = "failed"

\* C8: at most MAX_WORKERS calls of download_and_convert_to_webp are in
\* flight, all of them for the file main is waiting for in its fetch phase.
C8_PoolBoundedOneFile ==
    /\ Cardinality(Running(wpc)) <= MAX_WORKERS
    /\ \A k \in Running(wpc) : pc = "fetch" /\ tasks[k].owner = CurPath

\* The pool is full and a task of the file waits for a free thread.
C8_Witness ==
    /\ Cardinality(Running(wpc)) = MAX_WORKERS
    /\ \E k \in 1..Len(tasks) : wpc[k] = "queued"

\* C9: the tasks of one pass, which have different NormalizedURLs, have
\* different final paths and different temporary paths.
C9_PathsCollisionFree ==
    \A i, j \in 1..Len(tasks) :
        (tasks[i].owner = tasks[j].owner /\ tasks[i].norm_url # tasks[j].norm_url)
            => FinalOf(i) # FinalOf(j) /\ TmpOf(i) # TmpOf(j)

\* The number of times pair p occurs in query q.
Count(q, p) == Cardinality({i \in 1..Len(q) : q[i] = p})

\* Two URLs that differ at most in the order of their query parameters.
SameUpToParamOrder(a, b) ==
    /\ [a EXCEPT !.query = <<>>] = [b EXCEPT !.query = <<>>]
    /\ Len(a.query) = Len(b.query)
    /\ \A i \in 1..Len(a.query) : Count(a.query, a.query[i]) = Count(b.query, a.query[i])

\* C10: two show_logo URLs of a file that differ only in the order of
\* their query parameters are one NormalizedURL with at most one task.
C10_ParamOrderOneTask ==
    pc = "fetch" =>
        \A i, j \in 1..Len(CurData.schedule) :
            LET a == CurData.schedule[i]
                b == CurData.schedule[j]
            IN  (HasLogo(a) /\ HasLogo(b)
                 /\ SameUpToParamOrder(a.show_logo, b.show_logo)) =>
                    /\ orig_to_norm(a.show_logo) = orig_to_norm(b.show_logo)
                    /\ Cardinality(TasksFor(orig_to_norm(a.show_logo))
                                   \cup TasksFor(orig_to_norm(b.show_logo))) <= 1

\* C11: the day of a file is the day of the folder it was found in: the
\* tasks of a file save under {slug}/{folder} and the public URLs written
\* into a file name {slug}/{folder}, whatever the stem of the file is.
C11_DayFromCollection ==
    /\ \A k \in 1..Len(tasks) :
          tasks[k].local_path.dir
             = slug_from_filename(tasks[k].owner) \o "/" \o tasks[k].owner.folder
    /\ \A f \in DOMAIN disk : \A i \in 1..Len(disk[f].schedule) :
          IsPublic(disk[f].schedule[i].show_logo) =>
              disk[f].schedule[i].show_logo.dir
                 = "/" \o slug_from_filename(JsonPaths[f]) \o "/"
                   \o JsonPaths[f].folder \o "/"

\* C12: the scraper writes no JSON file whose schedule is empty: a channel
\* with programmes today and none tomorrow gets no tomorrow/{slug}.json.
C12_NoFileForEmptyDay ==
    \A path \in DOMAIN written : written[path].schedule # <<>>

\* A URL with a query parameter named lock: a resize directive.
HasLock(url) == \E i \in 1..Len(url.query) : url.query[i].k = "lock"

\* The parts of the first lock value of a URL.
LockOf(url) ==
    url.query[CHOOSE i \in 1..Len(url.query) :
                 /\ url.query[i].k = "lock"
                 /\ \A j \in 1..(i - 1) : url.query[j].k # "lock"].v

\* A directive WxH whose W and H parse as integers.
IsWxH(url) ==
    /\ HasLock(url)
    /\ Len(LockOf(url)) = 2
    /\ IsIntStr(LockOf(url)[1]) /\ IsIntStr(LockOf(url)[2])

Abs(n) == IF n < 0 THEN -n ELSE n

\* The result's directive is T x max(1, r), r an integer nearest to h*T/w.
RewrittenToNearest(w, h) ==
    /\ w # 0
    /\ \E r \in {(h * n_width) \div w, (h * n_width) \div w + 1} :
          /\ 2 * Abs(r * w - h * n_width) <= w
          /\ HasLock(n_norm)
          /\ LockOf(n_norm) = <<ToString(n_width), ToString(Max(1, r))>>

C14_MalformedToSquare ==
    (npc # "in" /\ HasLock(n_url) /\ Len(LockOf(n_url)) >= 2 /\ ~IsWxH(n_url)) =>
        /\ HasLock(n_norm)
        /\ LockOf(n_norm) = <<ToString(n_width), ToString(n_width)>>

\* C15, as claimed: the image converted for a URL without a resize
\* directive is TARGET_WIDTH wide and floor(h*TARGET_WIDTH/w) high, 250x100
\* for a source of 400x200.
C15_LocalResizeAsClaimed ==
    (npc = "converted" /\ ~HasLock(n_norm)) =>
        /\ n_size = <<TARGET_WIDTH, (n_served[2] * TARGET_WIDTH) \div n_served[1]>>
        /\ n_served = <<400, 200>> => n_size = <<250, 100>>

\* C15, amended: the image converted for a URL whose text holds no "lock="
\* is TARGET_WIDTH wide and int((h / w) * TARGET_WIDTH) high, which is
\* floor(h*TARGET_WIDTH/w) or one less: 250x125 for a source of 400x200,
\* 250x1000 for a source of 250x1001.
C15_LocalResize ==
    (npc = "converted" /\ ~HasLockMarker(n_norm)) =>
        /\ n_size[1] = TARGET_WIDTH
        /\ n_size[2] \in {(n_served[2] * TARGET_WIDTH) \div n_served[1],
                          (n_served[2] * TARGET_WIDTH) \div n_served[1] - 1}
        /\ n_served = <<400, 200>> => n_size = <<250, 125>>
        /\ n_served = <<250, 1001>> => n_size = <<250, 1000>>

\* A source of 400x200 fetched from a URL without a directive was converted.
C15_Witness ==
    /\ npc = "converted" /\ ~HasLockMarker(n_norm)
    /\ n_served = <<400, 200>> /\ n_size = <<250, 125>>

\* C16: a URL without a lock parameter is returned as it is, for every
\* target width.
C16_NoDirectiveUnchanged ==
    (npc # "in" /\ ~HasLock(n_url)) =>
        n_norm = n_url /\ UrlStr(n_norm) = UrlStr(n_url)

\* A URL without a lock, whose query would read differently built anew,
\* was returned as it is.
C16_Witness ==
    /\ npc = "normalized" /\ ~HasLock(n_url)
    /\ QueryStr(n_url.query) = "v=1&unlock=1&v=2"
    /\ n_norm = n_url

\* C17: the worker resizes the image to TARGET_WIDTH when the normalized
\* URL has no lock parameter and leaves it as served when it has one.
C17_ResizeIffNoDirective ==
    npc = "converted" =>
        IF ~HasLock(n_norm)
        THEN n_size = <<TARGET_WIDTH, ScaledHeight(n_served, TARGET_WIDTH)>>
        ELSE n_size = n_served

\* C18: every entry of the ResultIndex names a file that is there when the
\* entry is recorded, and an item is rewritten only to the public URL of
\* such a file, under the file's own name, whatever the worker returned.
C18_PublicOnlyForExistingFile ==
    [][/\ \A s \in DOMAIN per_file_downloaded' :
             PathStr(per_file_downloaded'[s]) \in DOMAIN fs'
       /\ RewriteStep =>
             \A i \in 1..Len(CurData.schedule) :
                 LET old == CurData.schedule[i].show_logo
                     new == disk'[files[cur]].schedule[i].show_logo
                     local == LocalPath(CurPath, orig_to_norm(old))
                 IN  new # old =>
                         /\ PathStr(local) \in DOMAIN fs
                         /\ new.host = WP_PREFIX
                         /\ new.dir = "/" \o local.dir \o "/"
                         /\ new.stem \o new.ext = local.stem \o local.ext]_vars

\* An item was rewritten to the public URL of a file that is there although
\* the call of the worker for its URL returned False.
C18_Witness ==
    /\ pc = "loop" /\ cur = 2
    /\ \E k \in 1..Len(tasks) :
          /\ wpc[k] = "failed"
          /\ FinalOf(k) \in DOMAIN fs
          /\ \E i \in 1..Len(disk[files[1]].schedule) :
                /\ orig_to_norm(input[files[1]].schedule[i].show_logo)
                      = tasks[k].norm_url
                /\ IsPublic(disk[files[1]].schedule[i].show_logo)

\* C19: a pass changes a file only in process_json_file's last step and
\* there only the show_logo of items whose URL is resolved in the
\* ResultIndex: the other top-level keys, the number and the order of the
\* items, every other field and every other show_logo stay.
C19_OnlyResolvedLogosChange ==
    [][\A f \in DOMAIN disk :
          disk'[f] # disk[f] =>
              /\ RewriteStep /\ f = files[cur]
              /\ [disk'[f] EXCEPT !.schedule = <<>>] = [disk[f] EXCEPT !.schedule = <<>>]
              /\ Len(disk'[f].schedule) = Len(disk[f].schedule)
              /\ \A i \in 1..Len(disk[f].schedule) :
                    LET old == disk[f].schedule[i]
                        new == disk'[f].schedule[i]
                    IN  /\ [new EXCEPT !.show_logo = EmptyLogo]
                           = [old EXCEPT !.show_logo = EmptyLogo]
                        /\ new.show_logo # old.show_logo =>
                              /\ HasLogo(old)
                              /\ UrlStr(orig_to_norm(old.show_logo))
                                    \in DOMAIN per_file_downloaded]_vars

\* A pass wrote a file of three items: one without a logo, one rewritten
\* and one whose fetch failed, the last two as they were but for the
\* rewritten show_logo.
C19_Witness ==
    /\ pc = "loop" /\ cur = 2
    /\ Len(disk[files[1]].schedule) = 3
    /\ \E i, j, l \in 1..3 :
          /\ ~HasLogo(disk[files[1]].schedule[i])
          /\ IsPublic(disk[files[1]].schedule[j].show_logo)
          /\ HasLogo(disk[files[1]].schedule[l])
          /\ ~IsPublic(disk[files[1]].schedule[l].show_logo)
          /\ disk[files[1]].schedule[i] = input[files[1]].schedule[i]
          /\ disk[files[1]].schedule[l] = input[files[1]].schedule[l]
          /\ disk[files[1]].schedule[j].title = input[files[1]].schedule[j].title
    /\ disk[files[1]].channel_name = input[files[1]].channel_name

\* C20: a run over the files as a fully successful run left them, the
\* output directory intact, submits no task, makes no fetch and leaves
\* every show_logo as it is.
C20_InPlaceRerunIdempotent ==
    (run = 2 /\ ~same_input /\ AllResolved(out1)) =>
        /\ fetches = 0
        /\ tasks = <<>>
        /\ pc = "done" => disk = out1
====
